---------------------------- MODULE Spec2Model ----------------------------
(***************************************************************************)
(* CHIP-8 virtual machine of rudzen/Chip8Py: the machine state (chip8.py), *)
(* the interpreter (cpu.py: load_program, key_pressed, step,               *)
(* draw_sprites_fast) and the host loop that drives it (main.py).          *)
(*                                                                         *)
(* Wall-clock time (time.time()) is an integer count of clock ticks, with  *)
(* TicksPerFrame ticks in 1/60 s.  A numpy uint32 framebuffer cell is held *)
(* as the 32-bit two's-complement integer with the same bit pattern        *)
(* (0xffffffff is -1), so "cell > 0" on the unsigned value reads           *)
(* "cell # 0" here.  A Python exception leaves every assignment made       *)
(* before the raise in place; the host loop catches it and goes on.        *)
(***************************************************************************)
EXTENDS Integers, Sequences, FiniteSets, TLC

(***************************************************************************)
(* Program constants                                                       *)
(***************************************************************************)
MemorySize == 4096
NumRegisters == 16
StackSize == 16
GfxWidth == 64
GfxHeight == 32
program_start == 512

FONT_CHARACTERS ==
  << 240, 144, 144, 144, 240,  32,  96,  32,  32, 112,
     240,  16, 240, 128, 240, 240,  16, 240,  16, 240,
     144, 144, 240,  16,  16, 240, 128, 240,  16, 240,
     240, 128, 240, 144, 240, 240,  16,  32,  64,  64,
     240, 144, 240, 144, 240, 240, 144, 240,  16, 240,
     240, 144, 240, 144, 144, 224, 144, 224, 144, 224,
     240, 128, 128, 128, 240, 224, 144, 144, 144, 224,
     240, 128, 240, 128, 240, 240, 128, 240, 128, 128 >>

(***************************************************************************)
(* Bounds of the model                                                     *)
(***************************************************************************)
\* clock ticks in 1/60 s: the granularity of the modelled wall clock
TicksPerFrame == 2
\* the clock stops advancing MaxElapsed ticks after construction
MaxElapsed == 5

TicksPerSecond == 60 * TicksPerFrame

\* time.time() at construction of the Chip8 object (seconds since the epoch, never 0)
StartTime == 1

\* hex keys the host delivers
Keys == {0, 5}

\* values random.randint(0, 255) is drawn from
RandomBytes == {0, 165, 255}

VARIABLES
  memory, v, gfx, stack, sp, pc, i, delay_timer, sound_timer, keyboard,
  waiting_for_key_press, watch_start,   \* the fields of Chip8
  rom_data,                             \* the ROM bytes main() read from the file, <<>> before
  clock,                                \* time.time()
  phase,                                \* position of main(): "constructed", "running"
  last,                                 \* the last operation performed and how it ended
  step_at,                              \* clock at the last call of step, -1 before the first
  dec_at,                               \* clock at the last decrement of delay_timer, -1 before the first
  gfx_before                            \* the framebuffer as the last call of step found it

vars == <<memory, v, gfx, stack, sp, pc, i, delay_timer, sound_timer, keyboard,
          waiting_for_key_press, watch_start, rom_data, clock, phase, last, step_at,
          dec_at, gfx_before>>

(***************************************************************************)
(* Integer and bit arithmetic of Python                                    *)
(***************************************************************************)
RECURSIVE Pow2(_)
Pow2(n) == IF n = 0 THEN 1 ELSE 2 * Pow2(n - 1)

\* (a >> n) & 1 for a >= 0
Bit(a, n) == (a \div Pow2(n)) % 2

RECURSIVE BitAnd(_, _)
BitAnd(a, b) ==
  IF a = 0 \/ b = 0 THEN 0
  ELSE (a % 2) * (b % 2) + 2 * BitAnd(a \div 2, b \div 2)

RECURSIVE BitOr(_, _)
BitOr(a, b) ==
  IF a = 0 THEN b
  ELSE IF b = 0 THEN a
  ELSE (IF a % 2 = 1 \/ b % 2 = 1 THEN 1 ELSE 0) + 2 * BitOr(a \div 2, b \div 2)

RECURSIVE BitXor(_, _)
BitXor(a, b) ==
  IF a = 0 THEN b
  ELSE IF b = 0 THEN a
  ELSE ((a + b) % 2) + 2 * BitXor(a \div 2, b \div 2)

\* XorAllOnes switching a cell on whatever it was
XorAllOnes_sets(cell) == -1

\* XorAllOnes adding one to the cell
XorAllOnes_counts(cell) == cell + 1

\* cell ^ 0xffffffff on a uint32 cell (two's-complement reading)
XorAllOnes(cell) == -1 - cell

Min(a, b) == IF a < b THEN a ELSE b
Max(a, b) == IF a > b THEN a ELSE b

(***************************************************************************)
(* The Chip8 object as a value                                             *)
(***************************************************************************)
Chip8 ==
  [ memory |-> [a \in 0..(MemorySize - 1) |-> 0],
    v |-> [r \in 0..(NumRegisters - 1) |-> 0],
    gfx |-> [p \in 0..(GfxWidth * GfxHeight - 1) |-> 0],
    stack |-> [s \in 0..(StackSize - 1) |-> 0],
    sp |-> 0,
    pc |-> 0,
    i |-> 0,
    delay_timer |-> 0,
    sound_timer |-> 0,
    keyboard |-> 0,
    waiting_for_key_press |-> FALSE,
    watch_start |-> StartTime ]

\* the object the variables hold
chip8 ==
  [ memory |-> memory, v |-> v, gfx |-> gfx, stack |-> stack, sp |-> sp,
    pc |-> pc, i |-> i, delay_timer |-> delay_timer, sound_timer |-> sound_timer,
    keyboard |-> keyboard, waiting_for_key_press |-> waiting_for_key_press,
    watch_start |-> watch_start ]

\* the variables take the fields of c
Store(c) ==
  /\ memory' = c.memory
  /\ v' = c.v
  /\ gfx' = c.gfx
  /\ stack' = c.stack
  /\ sp' = c.sp
  /\ pc' = c.pc
  /\ i' = c.i
  /\ delay_timer' = c.delay_timer
  /\ sound_timer' = c.sound_timer
  /\ keyboard' = c.keyboard
  /\ waiting_for_key_press' = c.waiting_for_key_press
  /\ watch_start' = c.watch_start


(***************************************************************************)
(* Cpu.load_program                                                        *)
(***************************************************************************)
\* load_program without the clearing of memory
load_program_keeps_memory(c, program) ==
  LET cleared == c.memory
      font == [a \in 0..(MemorySize - 1) |->
                 IF a < Len(FONT_CHARACTERS) THEN FONT_CHARACTERS[a + 1] ELSE cleared[a]]
      loaded == [a \in 0..(MemorySize - 1) |->
                   IF a >= program_start /\ a - program_start < Len(program)
                   THEN BitAnd(program[a - program_start + 1], 255)
                   ELSE font[a]]
  IN [c EXCEPT !.memory = loaded, !.pc = program_start, !.sp = 0]

load_program(c, program) ==
  LET cleared == [a \in 0..(MemorySize - 1) |-> 0]
      font == [a \in 0..(MemorySize - 1) |->
                 IF a < Len(FONT_CHARACTERS) THEN FONT_CHARACTERS[a + 1] ELSE cleared[a]]
      loaded == [a \in 0..(MemorySize - 1) |->
                   IF a >= program_start /\ a - program_start < Len(program)
                   THEN BitAnd(program[a - program_start + 1], 255)
                   ELSE font[a]]
  IN [c EXCEPT !.memory = loaded, !.pc = program_start, !.sp = 0]

(***************************************************************************)
(* Cpu.key_pressed                                                         *)
(***************************************************************************)
\* (memory[pc] << 8) | memory[pc + 1]
FetchOpcode(c) == c.memory[c.pc] * 256 + c.memory[c.pc + 1]

\* the fields of an opcode
OpNibble(opcode) == (opcode \div 4096) * 4096
OpX(opcode) == (opcode \div 256) % 16
OpY(opcode) == (opcode \div 16) % 16
OpN(opcode) == opcode % 16
OpNN(opcode) == opcode % 256
OpNNN(opcode) == opcode % 4096

\* key_pressed storing the key in Vy instead of Vx
key_pressed_wrong_register(c, key) ==
  LET c1 == [c EXCEPT !.waiting_for_key_press = FALSE]
      opcode == FetchOpcode(c1)
      c2 == [c1 EXCEPT !.v[OpY(opcode)] = BitAnd(key, 255)]
  IN [c2 EXCEPT !.pc = @ + 2]

key_pressed(c, key) ==
  LET c1 == [c EXCEPT !.waiting_for_key_press = FALSE]
      opcode == FetchOpcode(c1)
      c2 == [c1 EXCEPT !.v[OpX(opcode)] = BitAnd(key, 255)]
  IN [c2 EXCEPT !.pc = @ + 2]

(***************************************************************************)
(* Python list indexing and exceptions                                     *)
(***************************************************************************)
\* list[idx] is defined for -len <= idx < len; a negative idx counts from the end
InRange(idx, len) == -len <= idx /\ idx < len
PyIndex(idx, len) == IF idx < 0 THEN idx + len ELSE idx

\* how a call ends: the object as the call left it, and the exception raised
Returns(c, opcode) == [c |-> c, exc |-> "none", opcode |-> opcode]
Raises(c, exc, opcode) == [c |-> c, exc |-> exc, opcode |-> opcode]

(***************************************************************************)
(* Cpu.draw_sprites_fast                                                   *)
(***************************************************************************)
\* memory_array[i : i + n]: a numpy slice is clipped to the array
SpriteLen(c, n) == Max(0, Min(c.i + n, MemorySize) - Min(c.i, MemorySize))

\* one pass of the loop over the sprite bytes, from byte_index on
RECURSIVE draw_rows(_, _, _, _, _, _, _)
draw_rows(c, x, y, len, byte_index, gfx_array, set_last_v) ==
  IF byte_index >= len THEN [gfx |-> gfx_array, set_last_v |-> set_last_v]
  ELSE
    LET current_y == y + byte_index IN
    IF current_y >= GfxHeight THEN [gfx |-> gfx_array, set_last_v |-> set_last_v]
    ELSE
      LET sprite_byte == c.memory[c.i + byte_index]
          valid_x == { x + b : b \in { bp \in 0..7 : x + bp < GfxWidth /\ Bit(sprite_byte, 7 - bp) = 1 } }
          row_offset == current_y * GfxWidth
          pixel_indices == { row_offset + px : px \in valid_x }
      IN IF valid_x = {}
         THEN draw_rows(c, x, y, len, byte_index + 1, gfx_array, set_last_v)
         ELSE draw_rows(c, x, y, len, byte_index + 1,
                        [p \in DOMAIN gfx_array |->
                           IF p \in pixel_indices THEN XorAllOnes(gfx_array[p]) ELSE gfx_array[p]],
                        set_last_v \/ (\E p \in pixel_indices : gfx_array[p] # 0))

\* draw_sprites_fast with the origin wrapped onto the screen, as draw_sprites_naive does
draw_sprites_fast_wraps(c, x, y, n) ==
  LET r == draw_rows(c, x % GfxWidth, y % GfxHeight, SpriteLen(c, n), 0, c.gfx, FALSE)
  IN [c |-> [c EXCEPT !.gfx = r.gfx], result |-> r.set_last_v]

draw_sprites_fast(c, x, y, n) ==
  LET r == draw_rows(c, x, y, SpriteLen(c, n), 0, c.gfx, FALSE)
  IN [c |-> [c EXCEPT !.gfx = r.gfx], result |-> r.set_last_v]

(***************************************************************************)
(* Cpu.step: the timer gate                                                *)
(***************************************************************************)
TimerDue(c, current_time) ==
  c.delay_timer > 0 /\ (current_time - c.watch_start) * 60 >= TicksPerSecond

\* update_timers leaving watch_start where it was after a decrement
update_timers_no_restart(c, current_time) ==
  LET c1 == IF c.watch_start = 0 THEN [c EXCEPT !.watch_start = current_time] ELSE c
  IN IF TimerDue(c1, current_time)
     THEN [c1 EXCEPT !.delay_timer = @ - 1]
     ELSE c1

\* update_timers decrementing a timer that is already 0
update_timers_below_zero(c, current_time) ==
  LET c1 == IF c.watch_start = 0 THEN [c EXCEPT !.watch_start = current_time] ELSE c
  IN IF (current_time - c1.watch_start) * 60 >= TicksPerSecond
     THEN [c1 EXCEPT !.delay_timer = @ - 1, !.watch_start = current_time]
     ELSE c1

update_timers(c, current_time) ==
  LET c1 == IF c.watch_start = 0 THEN [c EXCEPT !.watch_start = current_time] ELSE c
  IN IF TimerDue(c1, current_time)
     THEN [c1 EXCEPT !.delay_timer = @ - 1, !.watch_start = current_time]
     ELSE c1

(***************************************************************************)
(* Cpu.step: the instruction families                                      *)
(***************************************************************************)
exec_0(c, opcode) ==
  IF opcode = 224
  THEN Returns([c EXCEPT !.gfx = [p \in 0..(GfxWidth * GfxHeight - 1) |-> 0]], opcode)
  ELSE IF opcode = 238
  THEN LET c1 == [c EXCEPT !.sp = @ - 1] IN
       IF InRange(c1.sp, StackSize)
       THEN Returns([c1 EXCEPT !.pc = c1.stack[PyIndex(c1.sp, StackSize)]], opcode)
       ELSE Raises(c1, "IndexError", opcode)
  ELSE Raises(c, "Chip8Exception", opcode)

exec_jump(c, opcode) == Returns([c EXCEPT !.pc = OpNNN(opcode)], opcode)

\* exec_call pushing the address of the call, not of the instruction after it
exec_call_pushes_call_address(c, opcode) ==
  IF InRange(c.sp, StackSize)
  THEN Returns([c EXCEPT !.stack[PyIndex(c.sp, StackSize)] = c.pc - 2,
                         !.sp = @ + 1,
                         !.pc = OpNNN(opcode)], opcode)
  ELSE Raises(c, "IndexError", opcode)

exec_call(c, opcode) ==
  IF InRange(c.sp, StackSize)
  THEN Returns([c EXCEPT !.stack[PyIndex(c.sp, StackSize)] = c.pc,
                         !.sp = @ + 1,
                         !.pc = OpNNN(opcode)], opcode)
  ELSE Raises(c, "IndexError", opcode)

\* Skip advancing pc by one byte
Skip_one_byte(c, cond) == IF cond THEN [c EXCEPT !.pc = @ + 1] ELSE c

\* the skip instructions: pc += 2 when the condition holds
Skip(c, cond) == IF cond THEN [c EXCEPT !.pc = @ + 2] ELSE c

exec_skip(c, opcode) ==
  LET nibble == OpNibble(opcode)
      vx == c.v[OpX(opcode)]
      vy == c.v[OpY(opcode)]
  IN Returns(Skip(c, CASE nibble = 12288 -> vx = OpNN(opcode)
                       [] nibble = 16384 -> vx # OpNN(opcode)
                       [] nibble = 20480 -> vx = vy
                       [] nibble = 36864 -> vx # vy), opcode)

exec_6(c, opcode) == Returns([c EXCEPT !.v[OpX(opcode)] = BitAnd(OpNN(opcode), 255)], opcode)

exec_7(c, opcode) ==
  Returns([c EXCEPT !.v[OpX(opcode)] = BitAnd(@ + OpNN(opcode), 255)], opcode)

\* exec_8 with the sum of 8xy4 stored unmasked
exec_8_sum_unmasked(c, opcode) ==
  LET vx == OpX(opcode)
      vy == OpY(opcode)
      sub_op == OpN(opcode)
  IN CASE sub_op = 0 -> Returns([c EXCEPT !.v[vx] = c.v[vy]], opcode)
       [] sub_op = 1 -> Returns([c EXCEPT !.v[vx] = BitAnd(BitOr(c.v[vx], c.v[vy]), 255)], opcode)
       [] sub_op = 2 -> Returns([c EXCEPT !.v[vx] = BitAnd(BitAnd(c.v[vx], c.v[vy]), 255)], opcode)
       [] sub_op = 3 -> Returns([c EXCEPT !.v[vx] = BitAnd(BitXor(c.v[vx], c.v[vy]), 255)], opcode)
       [] sub_op = 4 ->
            LET result == c.v[vx] + c.v[vy]
                c1 == [c EXCEPT !.v[15] = IF result > 255 THEN 1 ELSE 0]
            IN Returns([c1 EXCEPT !.v[vx] = result], opcode)
       [] sub_op = 5 ->
            LET c1 == [c EXCEPT !.v[15] = IF c.v[vx] > c.v[vy] THEN 1 ELSE 0]
            IN Returns([c1 EXCEPT !.v[vx] = (c1.v[vx] - c1.v[vy]) % 256], opcode)
       [] sub_op = 6 ->
            LET c1 == [c EXCEPT !.v[15] = BitAnd(c.v[vx], 1)]
            IN Returns([c1 EXCEPT !.v[vx] = c1.v[vx] \div 2], opcode)
       [] sub_op = 7 ->
            LET c1 == [c EXCEPT !.v[15] = IF c.v[vy] > c.v[vx] THEN 1 ELSE 0]
            IN Returns([c1 EXCEPT !.v[vx] = (c1.v[vy] - c1.v[vx]) % 256], opcode)
       [] sub_op = 14 ->
            LET c1 == [c EXCEPT !.v[15] = IF BitAnd(c.v[vx], 128) = 128 THEN 1 ELSE 0]
            IN Returns([c1 EXCEPT !.v[vx] = BitAnd(c1.v[vx] * 2, 255)], opcode)
       [] OTHER -> Raises(c, "Chip8Exception", opcode)

exec_8(c, opcode) ==
  LET vx == OpX(opcode)
      vy == OpY(opcode)
      sub_op == OpN(opcode)
  IN CASE sub_op = 0 -> Returns([c EXCEPT !.v[vx] = c.v[vy]], opcode)
       [] sub_op = 1 -> Returns([c EXCEPT !.v[vx] = BitAnd(BitOr(c.v[vx], c.v[vy]), 255)], opcode)
       [] sub_op = 2 -> Returns([c EXCEPT !.v[vx] = BitAnd(BitAnd(c.v[vx], c.v[vy]), 255)], opcode)
       [] sub_op = 3 -> Returns([c EXCEPT !.v[vx] = BitAnd(BitXor(c.v[vx], c.v[vy]), 255)], opcode)
       [] sub_op = 4 ->
            LET result == c.v[vx] + c.v[vy]
                c1 == [c EXCEPT !.v[15] = IF result > 255 THEN 1 ELSE 0]
            IN Returns([c1 EXCEPT !.v[vx] = BitAnd(result, 255)], opcode)
       [] sub_op = 5 ->
            LET c1 == [c EXCEPT !.v[15] = IF c.v[vx] > c.v[vy] THEN 1 ELSE 0]
            IN Returns([c1 EXCEPT !.v[vx] = (c1.v[vx] - c1.v[vy]) % 256], opcode)
       [] sub_op = 6 ->
            LET c1 == [c EXCEPT !.v[15] = BitAnd(c.v[vx], 1)]
            IN Returns([c1 EXCEPT !.v[vx] = c1.v[vx] \div 2], opcode)
       [] sub_op = 7 ->
            LET c1 == [c EXCEPT !.v[15] = IF c.v[vy] > c.v[vx] THEN 1 ELSE 0]
            IN Returns([c1 EXCEPT !.v[vx] = (c1.v[vy] - c1.v[vx]) % 256], opcode)
       [] sub_op = 14 ->
            LET c1 == [c EXCEPT !.v[15] = IF BitAnd(c.v[vx], 128) = 128 THEN 1 ELSE 0]
            IN Returns([c1 EXCEPT !.v[vx] = BitAnd(c1.v[vx] * 2, 255)], opcode)
       [] OTHER -> Raises(c, "Chip8Exception", opcode)

exec_A(c, opcode) == Returns([c EXCEPT !.i = OpNNN(opcode)], opcode)

exec_B(c, opcode) == Returns([c EXCEPT !.pc = OpNNN(opcode) + c.v[0]], opcode)

exec_C(c, opcode, rnd_byte) ==
  Returns([c EXCEPT !.v[OpX(opcode)] = BitAnd(BitAnd(rnd_byte, OpNN(opcode)), 255)], opcode)

exec_D(c, opcode) ==
  LET x == c.v[OpX(opcode)]
      y == c.v[OpY(opcode)]
      n == OpN(opcode)
      d == draw_sprites_fast(c, x, y, n)
  IN Returns([d.c EXCEPT !.v[15] = IF d.result THEN 1 ELSE 0], opcode)

\* (keyboard >> key_val) & 0x01, the keyboard being a 16-bit mask
KeyBit(keyboard_mask, key_val) == IF key_val > 15 THEN 0 ELSE Bit(keyboard_mask, key_val)

exec_E(c, opcode) ==
  LET nn == OpNN(opcode)
      key_val == c.v[OpX(opcode)]
  IN IF nn = 158 THEN Returns(Skip(c, KeyBit(c.keyboard, key_val) = 1), opcode)
     ELSE IF nn = 161 THEN Returns(Skip(c, KeyBit(c.keyboard, key_val) # 1), opcode)
     ELSE Raises(c, "Chip8Exception", opcode)

\* memory[i + k] = values[k] for k = 0 .. count - 1, one store after the other:
\* the first store past the end of memory raises IndexError, the earlier ones stay
StoreBytes(c, values, count) ==
  LET fits == Max(0, Min(count, MemorySize - c.i))
      c1 == [c EXCEPT !.memory = [a \in 0..(MemorySize - 1) |->
                                    IF a >= c.i /\ a < c.i + fits THEN values[a - c.i] ELSE c.memory[a]]]
  IN [c |-> c1, complete |-> fits = count]

\* v[k] = memory[i + k] for k = 0 .. count - 1, one load after the other
LoadBytes(c, count) ==
  LET fits == Max(0, Min(count, MemorySize - c.i))
      c1 == [c EXCEPT !.v = [r \in 0..(NumRegisters - 1) |->
                               IF r < fits THEN c.memory[c.i + r] ELSE c.v[r]]]
  IN [c |-> c1, complete |-> fits = count]

\* key_wait without the rewind of pc
key_wait_no_rewind(c) == [c EXCEPT !.waiting_for_key_press = TRUE]

\* Fx0A: suspend, pc back on the instruction
key_wait(c) == [c EXCEPT !.waiting_for_key_press = TRUE, !.pc = @ - 2]

exec_F(c, opcode) ==
  LET tx == OpX(opcode)
      sub_op == OpNN(opcode)
  IN CASE sub_op = 7 -> Returns([c EXCEPT !.v[tx] = c.delay_timer], opcode)
       [] sub_op = 10 -> Returns(key_wait(c), opcode)
       [] sub_op = 21 -> Returns([c EXCEPT !.delay_timer = c.v[tx]], opcode)
       [] sub_op = 24 -> Returns([c EXCEPT !.sound_timer = c.v[tx]], opcode)
       [] sub_op = 30 -> Returns([c EXCEPT !.i = BitAnd(c.i + c.v[tx], 65535)], opcode)
       [] sub_op = 41 -> Returns([c EXCEPT !.i = BitAnd(c.v[tx] * 5, 65535)], opcode)
       [] sub_op = 51 ->
            LET digits == [k \in 0..2 |-> CASE k = 0 -> c.v[tx] \div 100
                                            [] k = 1 -> (c.v[tx] % 100) \div 10
                                            [] k = 2 -> c.v[tx] % 10]
                s == StoreBytes(c, digits, 3)
            IN IF s.complete THEN Returns(s.c, opcode) ELSE Raises(s.c, "IndexError", opcode)
       [] sub_op = 85 ->
            LET s == StoreBytes(c, c.v, tx + 1)
            IN IF s.complete THEN Returns(s.c, opcode) ELSE Raises(s.c, "IndexError", opcode)
       [] sub_op = 101 ->
            LET s == LoadBytes(c, tx + 1)
            IN IF s.complete THEN Returns(s.c, opcode) ELSE Raises(s.c, "IndexError", opcode)
       [] OTHER -> Raises(c, "Chip8Exception", opcode)

\* the dispatch on the top nibble, pc already advanced
execute(c, opcode, rnd_byte) ==
  LET nibble == OpNibble(opcode)
  IN CASE nibble = 0 -> exec_0(c, opcode)
       [] nibble = 4096 -> exec_jump(c, opcode)
       [] nibble = 8192 -> exec_call(c, opcode)
       [] nibble \in {12288, 16384, 20480, 36864} -> exec_skip(c, opcode)
       [] nibble = 24576 -> exec_6(c, opcode)
       [] nibble = 28672 -> exec_7(c, opcode)
       [] nibble = 32768 -> exec_8(c, opcode)
       [] nibble = 40960 -> exec_A(c, opcode)
       [] nibble = 45056 -> exec_B(c, opcode)
       [] nibble = 49152 -> exec_C(c, opcode, rnd_byte)
       [] nibble = 53248 -> exec_D(c, opcode)
       [] nibble = 57344 -> exec_E(c, opcode)
       [] nibble = 61440 -> exec_F(c, opcode)
       [] OTHER -> Raises(c, "Chip8Exception", opcode)

(***************************************************************************)
(* Cpu.step                                                                *)
(***************************************************************************)
step(c, current_time, rnd_byte) ==
  LET c1 == update_timers(c, current_time)
  IN IF ~(InRange(c1.pc, MemorySize) /\ InRange(c1.pc + 1, MemorySize))
     THEN Raises(c1, "IndexError", -1)
     ELSE LET opcode == c1.memory[PyIndex(c1.pc, MemorySize)] * 256
                          + c1.memory[PyIndex(c1.pc + 1, MemorySize)]
          IN IF c1.waiting_for_key_press
             THEN Raises(c1, "Chip8Exception", opcode)
             ELSE execute([c1 EXCEPT !.pc = @ + 2], opcode, rnd_byte)

(***************************************************************************)
(* Programs the host loads (ROM bytes, loaded at 0x200)                    *)
(***************************************************************************)
\* 6A03 FA15 FA18 F30A F007 120A: set both timers, wait for a key, read the delay timer
ProgKeyWait == <<106, 3, 250, 21, 250, 24, 243, 10, 240, 7, 18, 10>>
\* 1203 .. 6A01 1205 from 0x203: a jump to an odd address
ProgJumpOdd == <<18, 3, 0, 106, 1, 18, 5>>
\* 6001 BFFF: jump to 0xFFF + V0
ProgJumpV0 == <<96, 1, 191, 255>>
\* 6001 B206 .. 1207 at 0x207: jump to 0x206 + V0
ProgJumpV0Odd == <<96, 1, 178, 6, 0, 0, 0, 18, 7>>
\* 1FFC: run into the end of memory
ProgEndOfMemory == <<31, 252>>
\* 2204 1202 00EE: call and return
ProgCall == <<34, 4, 18, 2, 0, 238>>
\* 1203 .. 2207 1205 00EE from 0x203: call and return at odd addresses
ProgCallOdd == <<18, 3, 0, 34, 7, 18, 5, 0, 238>>
\* 3000 .. 4000 5010 .. 9010 E09E 120C E0A1 1210 120C: the skips
ProgSkips == <<48, 0, 0, 0, 64, 0, 80, 16, 0, 0, 144, 16, 224, 158, 18, 12, 224, 161, 18, 16, 18, 12>>
\* 60FF 6101 8014 8015 8016 8017 801E 8011 8012 8013 7005 8100 800F F10A 1200
ProgArith ==
  <<96, 255, 97, 1, 128, 20, 128, 21, 128, 22, 128, 23, 128, 30, 128, 17, 128, 18,
    128, 19, 112, 5, 129, 0, 128, 15, 241, 10, 18, 0>>
\* 603E A000 D005 D005 00E0 F11E F029 F033 F155 F165 C10F 1216
ProgDraw ==
  <<96, 62, 160, 0, 208, 5, 208, 5, 0, 224, 241, 30, 240, 41, 240, 51, 241, 85,
    241, 101, 193, 15, 18, 22>>
\* 60FF AFFF F033 F155 F165 E000 F0FF 0123 120E
ProgMemoryEnd ==
  <<96, 255, 175, 255, 240, 51, 241, 85, 241, 101, 224, 0, 240, 255, 1, 35, 18, 14>>
\* D005 F10A D005 D005 00E0 120A: the "0" glyph drawn, a key-wait, the glyph erased,
\* drawn again and cleared
ProgClear == <<208, 5, 241, 10, 208, 5, 208, 5, 0, 224, 18, 10>>

Programs ==
  { ProgKeyWait, ProgJumpOdd, ProgJumpV0, ProgJumpV0Odd, ProgEndOfMemory, ProgCall,
    ProgCallOdd, ProgSkips, ProgArith, ProgDraw, ProgMemoryEnd, ProgClear }

\* 2200 00EE 1204: a call of itself until the stack is full, then returns until it is empty
ProgStack == <<34, 0, 0, 238, 18, 4>>
\* 2206 1202 .. 220A 00EE 00EE: a call inside a call, and both returns
ProgNested == <<34, 6, 18, 2, 0, 0, 34, 10, 0, 238, 0, 238>>
\* 5001 1202 6101 9012 1208 8008 E000 F0FF 0123 1212: opcodes outside the instruction set
ProgUnsupported ==
  <<80, 1, 18, 2, 97, 1, 144, 18, 18, 8, 128, 8, 224, 0, 240, 255, 1, 35, 18, 18>>
\* 6x a  6y b  8xyk  1206: one arithmetic instruction on chosen operands
AluProgram(x, y, a, b, k) == <<96 + x, a, 96 + y, b, 128 + x, 16 * y + k, 18, 6>>
\* D005  60 a  61 b  Annn  D01n  D01n  120C: the "0" glyph at the origin, then one sprite twice
DrawProgram(a, b, nnn, n) ==
  <<208, 5, 96, a, 97, b, 160 + (nnn \div 256), nnn % 256, 208, 16 + n, 208, 16 + n, 18, 12>>

AluRegistersX == {0, 15}
AluRegistersY == {0, 1, 15}
AluOperands == {0, 1, 5, 128, 255}
AluOperations == {4, 5, 6, 7, 14}
DrawColumns == {0, 62, 64, 255}
DrawRows == {0, 30, 32, 255}
DrawAddresses == {0, 512, 4094}
DrawHeights == {0, 1, 5, 15}

CorePrograms ==
  {ProgStack, ProgNested, ProgCall, ProgCallOdd, ProgUnsupported, ProgMemoryEnd}
  \cup {AluProgram(x, y, a, b, k) : x \in AluRegistersX, y \in AluRegistersY,
                                    a \in AluOperands, b \in AluOperands, k \in AluOperations}
  \cup {DrawProgram(a, b, nnn, n) : a \in DrawColumns, b \in DrawRows,
                                    nnn \in DrawAddresses, n \in DrawHeights}

\* the room from program_start to the end of memory
MaxProgramLength == MemorySize - program_start
\* 60AB F015 F018 A000 F055 D115 A300 F055 2212 1212: registers, timers, font,
\* framebuffer, memory above the program and the stack all written
ProgDirty ==
  <<96, 171, 240, 21, 240, 24, 160, 0, 240, 85, 209, 21, 163, 0, 240, 85, 34, 18, 18, 18>>
\* 7001 3010 1200 1206: count V0 up to 16
ProgCount == <<112, 1, 48, 16, 18, 0, 18, 6>>
\* 1200 followed by bytes that differ from place to place, up to a given length
ProgOfLength(len) == [k \in 1..len |-> IF k = 1 THEN 18 ELSE IF k = 2 THEN 0 ELSE (7 * k + 3) % 256]
ProgLongest == ProgOfLength(MaxProgramLength)
ProgTooLong == ProgOfLength(MaxProgramLength + 1)

LoadPrograms == {<<>>, ProgDirty, ProgCount, ProgLongest, ProgTooLong}

(***************************************************************************)
(* The host: main()                                                        *)
(***************************************************************************)
\* keyboard |= (1 << key) and keyboard &= ~(1 << key)
SetKey(keyboard_mask, key) ==
  IF Bit(keyboard_mask, key) = 1 THEN keyboard_mask ELSE keyboard_mask + Pow2(key)
ClearKey(keyboard_mask, key) ==
  IF Bit(keyboard_mask, key) = 1 THEN keyboard_mask - Pow2(key) ELSE keyboard_mask

\* what was done last: the operation, the exception it raised, the opcode it fetched (for a
\* key-down: the opcode of the key-wait it completed, -1 when it completed none), the key it
\* delivered, and whether the timer gate decremented delay_timer
Did(op, exc, opcode, key, dec) ==
  [op |-> op, exc |-> exc, opcode |-> opcode, key |-> key, dec |-> dec]

Init ==
  /\ memory = Chip8.memory
  /\ v = Chip8.v
  /\ gfx = Chip8.gfx
  /\ stack = Chip8.stack
  /\ sp = Chip8.sp
  /\ pc = Chip8.pc
  /\ i = Chip8.i
  /\ delay_timer = Chip8.delay_timer
  /\ sound_timer = Chip8.sound_timer
  /\ keyboard = Chip8.keyboard
  /\ waiting_for_key_press = Chip8.waiting_for_key_press
  /\ watch_start = Chip8.watch_start
  /\ clock = StartTime
  /\ phase = "constructed"
  /\ last = Did("new", "none", -1, -1, FALSE)
  /\ step_at = -1
  /\ dec_at = -1
  /\ rom_data = <<>>
  /\ gfx_before = Chip8.gfx

\* Cpu.load_program(chip8, rom_data)
Load ==
  /\ phase = "constructed"
  /\ \E program \in Programs :
       /\ rom_data' = program
       /\ Store(load_program(chip8, program))
  /\ phase' = "running"
  /\ last' = Did("load", "none", -1, -1, FALSE)
  /\ UNCHANGED <<clock, step_at, dec_at, gfx_before>>

\* KeyDown completing a wait whether or not one is pending
KeyDown_always_completes ==
  /\ phase = "running"
  /\ \E key \in Keys :
       LET c1 == [chip8 EXCEPT !.keyboard = SetKey(@, key)]
       IN /\ InRange(c1.pc, MemorySize) /\ InRange(c1.pc + 1, MemorySize)
          /\ Store(key_pressed(c1, key))
          /\ last' = Did("keydown", "none",
                          IF c1.waiting_for_key_press THEN FetchOpcode(c1) ELSE -1, key, FALSE)
  /\ UNCHANGED <<rom_data, clock, phase, step_at, dec_at, gfx_before>>

\* SDL_KEYDOWN of a mapped key
KeyDown ==
  /\ phase = "running"
  /\ \E key \in Keys :
       LET c1 == [chip8 EXCEPT !.keyboard = SetKey(@, key)]
       IN /\ Store(IF c1.waiting_for_key_press THEN key_pressed(c1, key) ELSE c1)
          /\ last' = Did("keydown", "none",
                          IF c1.waiting_for_key_press THEN FetchOpcode(c1) ELSE -1, key, FALSE)
  /\ UNCHANGED <<rom_data, clock, phase, step_at, dec_at, gfx_before>>

\* SDL_KEYUP of a mapped key
KeyUp ==
  /\ phase = "running"
  /\ \E key \in Keys :
       /\ keyboard' = ClearKey(keyboard, key)
       /\ last' = Did("keyup", "none", -1, key, FALSE)
  /\ UNCHANGED <<memory, v, gfx, stack, sp, pc, i, delay_timer, sound_timer,
                 waiting_for_key_press, watch_start, rom_data, clock, phase, step_at,
                 dec_at, gfx_before>>

\* a call of Cpu.step at the current time
\* random.randint(0, 255) is called by the Cxnn branch only
DrawsRandom(c) ==
  /\ InRange(c.pc, MemorySize) /\ InRange(c.pc + 1, MemorySize)
  /\ ~c.waiting_for_key_press
  /\ OpNibble(FetchOpcode(c)) = 49152

CallStep ==
  \E rnd_byte \in IF DrawsRandom(chip8) THEN RandomBytes ELSE {0} :
    LET r == step(chip8, clock, rnd_byte)
        dec == update_timers(chip8, clock).delay_timer < delay_timer
    IN /\ Store(r.c)
       /\ last' = Did("step", r.exc, r.opcode, -1, dec)
       /\ step_at' = clock
       /\ dec_at' = IF dec THEN clock ELSE dec_at
       /\ gfx_before' = gfx
       /\ UNCHANGED <<rom_data, clock, phase>>

\* Step without the test of waiting_for_key_press
Step_ignores_wait ==
  /\ phase = "running"
  /\ CallStep

\* the host loop: step only when no key-wait is pending; it catches what step raises
Step ==
  /\ phase = "running"
  /\ ~waiting_for_key_press
  /\ CallStep

\* a caller that calls step although a key-wait is pending
StepWhileWaiting ==
  /\ phase = "running"
  /\ waiting_for_key_press
  /\ CallStep

\* real time passes
Tick ==
  /\ clock < StartTime + MaxElapsed
  /\ clock' = clock + 1
  /\ last' = Did("tick", "none", -1, -1, FALSE)
  /\ UNCHANGED <<memory, v, gfx, stack, sp, pc, i, delay_timer, sound_timer, keyboard,
                 waiting_for_key_press, watch_start, rom_data, phase, step_at, dec_at,
                 gfx_before>>

Next == Load \/ KeyDown \/ KeyUp \/ Step \/ Tick

Spec == Init /\ [][Next]_vars

\* Cpu.step as a public operation: any caller, at any time
NextApi == Next \/ StepWhileWaiting

SpecApi == Init /\ [][NextApi]_vars

\* Cpu.load_program(chip8, rom_data) of one of the instruction programs
LoadCore ==
  /\ phase = "constructed"
  /\ \E program \in CorePrograms :
       /\ rom_data' = program
       /\ Store(load_program(chip8, program))
  /\ phase' = "running"
  /\ last' = Did("load", "none", -1, -1, FALSE)
  /\ UNCHANGED <<clock, step_at, dec_at, gfx_before>>

\* the interpreter alone: a loaded program stepped with no key and no timer running
NextCore == LoadCore \/ Step

SpecCore == Init /\ [][NextCore]_vars

\* Cpu.load_program as a public operation: on a new machine, or on one that has run;
\* main() exits on an empty rom_data, so the first load is never of an empty program
LoadAny ==
  /\ phase \in {"constructed", "running"}
  /\ \E program \in LoadPrograms :
       /\ phase = "constructed" => program # <<>>
       /\ rom_data' = program
       /\ Store(load_program(chip8, program))
  /\ phase' = IF phase = "constructed" THEN "running" ELSE "reloaded"
  /\ last' = Did("load", "none", -1, -1, FALSE)
  /\ UNCHANGED <<clock, step_at, dec_at, gfx_before>>

NextLoad == LoadAny \/ Step

SpecLoad == Init /\ [][NextLoad]_vars

(***************************************************************************)
(* Opcode patterns                                                         *)
(***************************************************************************)
IsFx(opcode, nn) == opcode >= 0 /\ OpNibble(opcode) = 61440 /\ OpNN(opcode) = nn
IsKeyWait(opcode) == IsFx(opcode, 10)

\* a step can fetch: pc and pc + 1 address memory
CanFetch == InRange(pc, MemorySize) /\ InRange(pc + 1, MemorySize)

(***************************************************************************)
(* Key-wait: suspend and resume                                            *)
(***************************************************************************)
\* C1: a step that executes the key-wait instruction Fx0A sets
\* waiting_for_key_press, leaves pc on that same instruction and writes no register.
C1_KeyWaitSuspends ==
  [][ (last'.op = "step" /\ ~waiting_for_key_press /\ CanFetch /\ IsKeyWait(FetchOpcode(chip8)))
        => /\ waiting_for_key_press'
           /\ pc' = pc
           /\ v' = v
           /\ last'.exc = "none" ]_vars

\* a step has just executed Fx0A and the machine is suspended on it
C1_Witness ==
  /\ last.op = "step" /\ IsKeyWait(last.opcode)
  /\ waiting_for_key_press
  /\ IsKeyWait(FetchOpcode(chip8))

\* C2: a key-down for key k delivered while a key-wait is pending stores k in the
\* register Vx named by the Fx0A at pc, clears waiting_for_key_press, advances pc by
\* exactly 2, and changes no other register, nor I, sp, the stack or memory.
C2_KeyDownCompletesWait ==
  [][ (last'.op = "keydown" /\ waiting_for_key_press)
        => /\ IsKeyWait(FetchOpcode(chip8))
           /\ v' = [v EXCEPT ![OpX(FetchOpcode(chip8))] = last'.key]
           /\ ~waiting_for_key_press'
           /\ pc' = pc + 2
           /\ UNCHANGED <<i, sp, stack, memory>> ]_vars

\* key 5 has just completed the wait of F30A: V3 holds 5 and pc is past the instruction
C2_Witness ==
  /\ last.op = "keydown" /\ last.key = 5 /\ IsKeyWait(last.opcode)
  /\ ~waiting_for_key_press
  /\ v[OpX(last.opcode)] = 5
  /\ pc >= 2 /\ memory[pc - 2] * 256 + memory[pc - 1] = last.opcode

\* C3: a pending key-wait is completed exactly once: the key-down that finds the wait
\* pending ends it, a key-down that finds none pending only sets its bit in the keyboard
\* mask (no register written, pc not moved), and only a step executing Fx0A starts a wait.
C3_WaitCompletedOnce ==
  [][ /\ (last'.op = "keydown" /\ waiting_for_key_press) => ~waiting_for_key_press'
      /\ (last'.op = "keydown" /\ ~waiting_for_key_press)
           => /\ v' = v /\ pc' = pc /\ ~waiting_for_key_press'
              /\ keyboard' = SetKey(keyboard, last'.key)
              /\ UNCHANGED <<memory, gfx, stack, sp, i, delay_timer, sound_timer>>
      /\ (~waiting_for_key_press /\ waiting_for_key_press')
           => last'.op = "step" /\ IsKeyWait(last'.opcode) ]_vars

\* after a wait was completed by one key, a key-down of another key has arrived before
\* the next Fx0A: the register still holds the first key
C3_Witness ==
  /\ last.op = "keydown" /\ last.opcode = -1
  /\ ~waiting_for_key_press
  /\ pc >= 2 /\ pc <= MemorySize /\ IsKeyWait(memory[pc - 2] * 256 + memory[pc - 1])
  /\ v[OpX(memory[pc - 2] * 256 + memory[pc - 1])] \in Keys \ {last.key}
  /\ Bit(keyboard, last.key) = 1

\* C4: a call of step while a key-wait is pending fails and leaves pc, the registers, I,
\* the stack, sp, memory, the framebuffer and both timers as they were.
C4_StepWhileWaitingChangesNothing ==
  [][ (last'.op = "step" /\ waiting_for_key_press)
        => /\ last'.exc # "none"
           /\ UNCHANGED <<pc, v, i, stack, sp, memory, gfx, delay_timer, sound_timer>> ]_vars

(***************************************************************************)
(* The 60Hz timers                                                         *)
(***************************************************************************)
\* at least 1/60 s has passed since the timestamp of the last timer decrement
FrameElapsed == (clock - watch_start) * 60 >= TicksPerSecond

\* the instruction a step is about to execute sets a timer (Fx15, Fx18)
SetsDelayTimer == CanFetch /\ ~waiting_for_key_press /\ IsFx(FetchOpcode(chip8), 21)
SetsSoundTimer == CanFetch /\ ~waiting_for_key_press /\ IsFx(FetchOpcode(chip8), 24)

Decremented(timer) == IF timer > 0 THEN timer - 1 ELSE 0

\* C5: on a step call at which at least 1/60 s has elapsed since the last timer
\* decrement, delay_timer and sound_timer are each decremented by exactly 1 when nonzero
\* and stay 0 when zero (the step's own Fx15 / Fx18 aside); neither goes below 0.
C5_BothTimersDecrement ==
  [][ (last'.op = "step" /\ FrameElapsed)
        => /\ ~SetsDelayTimer => delay_timer' = Decremented(delay_timer)
           /\ ~SetsSoundTimer => sound_timer' = Decremented(sound_timer)
           /\ delay_timer' >= 0 /\ sound_timer' >= 0 ]_vars

\* C6: step calls whose total elapsed time is less than 1/60 s decrement delay_timer at
\* most once: a decrement by the timer gate comes at least 1/60 s after the one before it.
C6_DecrementsOneFrameApart ==
  [][ (last'.op = "step" /\ last'.dec /\ dec_at # -1)
        => /\ clock - dec_at >= TicksPerFrame
           /\ delay_timer > 0 ]_vars

\* a step less than 1/60 s after a decrement has left the running delay_timer alone
C6_Witness ==
  /\ last.op = "step" /\ ~last.dec /\ ~IsFx(last.opcode, 21)
  /\ delay_timer > 0
  /\ dec_at # -1 /\ clock - dec_at < TicksPerFrame

\* whole frames (1/60 s) of real time since the previous call of step
FramesSinceStep == (clock - step_at) \div TicksPerFrame

\* C7: when k/60 s (k >= 2) pass between two consecutive step calls, with or without a
\* key-wait in between, delay_timer has decreased by min(k, its previous value).
C7_DecayFollowsRealTime ==
  [][ (last'.op = "step" /\ step_at # -1 /\ FramesSinceStep >= 2 /\ ~SetsDelayTimer)
        => delay_timer' = delay_timer - Min(FramesSinceStep, delay_timer) ]_vars

\* C8: both timers stay within 0..255, and a timer's value goes up only in a step that
\* executes the instruction setting it (Fx15 for delay_timer, Fx18 for sound_timer).
C8_TimersBoundedAndMonotone ==
  /\ [](delay_timer \in 0..255 /\ sound_timer \in 0..255)
  /\ [][ /\ delay_timer' > delay_timer
           => last'.op = "step" /\ last'.exc = "none" /\ IsFx(last'.opcode, 21)
         /\ sound_timer' > sound_timer
           => last'.op = "step" /\ last'.exc = "none" /\ IsFx(last'.opcode, 24) ]_vars

\* Fx15 and Fx18 have set the timers, and the gate has since decremented delay_timer
C8_Witness ==
  /\ sound_timer > 0
  /\ delay_timer > 0 /\ delay_timer < sound_timer
  /\ last.op = "step" /\ last.dec

(***************************************************************************)
(* The program counter                                                     *)
(***************************************************************************)
\* C9: once a program is loaded, pc is always within 0x000..0xFFF.
C9_PcInMemory == phase = "running" => pc \in 0..(MemorySize - 1)

\* C10: once a program is loaded, pc is always even.
C10_PcEven == phase = "running" => pc % 2 = 0

\* the step just taken loaded pc from a jump target: 1nnn, 2nnn, Bnnn or 00EE
LoadedJumpTarget ==
  /\ last'.op = "step" /\ last'.exc = "none"
  /\ \/ OpNibble(last'.opcode) \in {4096, 8192} /\ pc' = OpNNN(last'.opcode)
     \/ OpNibble(last'.opcode) = 45056 /\ pc' = OpNNN(last'.opcode) + v[0]
     \/ last'.opcode = 238 /\ pc' = stack[PyIndex(sp - 1, StackSize)]

\* C10 (amended): load leaves pc at 0x200, and every step that does not load pc from a
\* jump target (1nnn, 2nnn, Bnnn, 00EE), and every key event, moves pc by 0, 2 or 4: pc
\* stays even until a jump, call or return loads an odd address.
C10_ParityKeptExceptByJumps ==
  [][ /\ last'.op = "load" => pc' = program_start
      /\ last'.op # "load" => (LoadedJumpTarget \/ pc' - pc \in {0, 2, 4}) ]_vars

\* a jump has made pc odd and an instruction executed there has left it odd
C10_Witness ==
  /\ last.op = "step" /\ last.exc = "none" /\ OpNibble(last.opcode) = 24576
  /\ pc % 2 = 1

(***************************************************************************)
(* Registers                                                               *)
(***************************************************************************)
IsOp8(opcode, sub_op) == opcode >= 0 /\ OpNibble(opcode) = 32768 /\ OpN(opcode) = sub_op

\* C11: every register V0..VF holds a value in 0..255 after load and any
\* sequence of steps and key-wait completions
C11_RegistersAreBytes == \A r \in 0..(NumRegisters - 1) : v[r] \in 0..255

\* 8014 has added 0xFF and 0x01: the sum wrapped to 0 and the carry is in VF
C11_Witness ==
  /\ last.op = "step" /\ last.exc = "none" /\ IsOp8(last.opcode, 4)
  /\ v[0] = 0 /\ v[1] = 1 /\ v[15] = 1

(***************************************************************************)
(* The call stack                                                          *)
(***************************************************************************)
IsCall(opcode) == opcode >= 0 /\ OpNibble(opcode) = 8192
IsReturn(opcode) == opcode = 238

\* C12: after load and any sequence of step calls sp is within 0..16 (and so
\* every stack access addresses a slot 0..15)
C12_SpInRange == sp \in 0..StackSize

\* C13: a 2nnn executed with sp = 16 and a 00EE executed with sp = 0 each fail
\* with an error; sp and the stack are unchanged and pc is not loaded from a
\* stack slot (it is left at the failing instruction or just after it)
C13_FullOrEmptyStackFails ==
  [][ ( /\ last'.op = "step"
        /\ \/ IsCall(last'.opcode) /\ sp = StackSize
           \/ IsReturn(last'.opcode) /\ sp = 0 )
      => /\ last'.exc # "none"
         /\ sp' = sp
         /\ stack' = stack
         /\ pc' \in {pc, pc + 2} ]_vars

\* C14: with fewer than 16 addresses stacked, 2nnn at address a stores a+2 in
\* stack[sp], increments sp and sets pc = nnn; with at least one address
\* stacked, 00EE sets pc = stack[sp-1] and decrements sp without touching the
\* slots; nothing else moves sp or the stack.  So the return that balances a
\* call finds a+2 in the slot the call wrote and restores sp: last in, first out.
C14_CallAndReturn ==
  [][ /\ ( last'.op = "step" /\ IsCall(last'.opcode) /\ sp \in 0..(StackSize - 1) )
         => /\ last'.exc = "none"
            /\ stack' = [stack EXCEPT ![sp] = pc + 2]
            /\ sp' = sp + 1
            /\ pc' = OpNNN(last'.opcode)
      /\ ( last'.op = "step" /\ IsReturn(last'.opcode) /\ sp \in 1..StackSize )
         => /\ last'.exc = "none"
            /\ pc' = stack[sp - 1]
            /\ sp' = sp - 1
            /\ stack' = stack
      /\ ( /\ last'.op # "load"
           /\ ~(last'.op = "step" /\ (IsCall(last'.opcode) \/ IsReturn(last'.opcode))) )
         => UNCHANGED <<stack, sp>> ]_vars

\* the outer return of 2206 .. 220A 00EE 00EE: back at 0x202 with the stack
\* empty, after the inner return went back to 0x208
C14_Witness ==
  /\ rom_data = ProgNested
  /\ last.op = "step" /\ last.exc = "none" /\ IsReturn(last.opcode)
  /\ sp = 0 /\ pc = program_start + 2
  /\ stack[0] = program_start + 2 /\ stack[1] = program_start + 8

(***************************************************************************)
(* Loading                                                                 *)
(***************************************************************************)
\* C15: a load of at most 3584 bytes, on any machine state, leaves the font in
\* memory[0x000..0x04F], the bytes in memory[0x200..0x200+len), 0 in every
\* other byte, pc = 0x200, sp = 0, and every other field as it was
C15_LoadInstallsProgram ==
  [][ ( last'.op = "load" /\ Len(rom_data') <= MaxProgramLength )
      => /\ \A a \in 0..(MemorySize - 1) :
              memory'[a] = IF a < Len(FONT_CHARACTERS) THEN FONT_CHARACTERS[a + 1]
                           ELSE IF a >= program_start /\ a < program_start + Len(rom_data')
                           THEN rom_data'[a - program_start + 1]
                           ELSE 0
         /\ pc' = program_start
         /\ sp' = 0
         /\ UNCHANGED <<v, i, stack, delay_timer, sound_timer, keyboard, gfx,
                        waiting_for_key_press>> ]_vars

\* the longest program loaded on the machine that ProgDirty has run on: the
\* last byte of memory is the last byte of the program, the byte written at
\* 0x300 and the font are as new, and registers, stack, timer and pixels are kept
C15_Witness ==
  /\ phase = "reloaded" /\ last.op = "load"
  /\ rom_data = ProgLongest
  /\ memory[MemorySize - 1] = ProgLongest[MaxProgramLength] /\ memory[MemorySize - 1] # 0
  /\ memory[0] = FONT_CHARACTERS[1]
  /\ v[0] = 171 /\ delay_timer = 171 /\ i = 768 /\ stack[0] = program_start + 18
  /\ gfx[0] # 0
  /\ pc = program_start /\ sp = 0

\* C16: a load of more than 3584 bytes is rejected with an error and installs nothing
C16_OversizeProgramRejected ==
  [][ ( last'.op = "load" /\ Len(rom_data') > MaxProgramLength )
      => last'.exc # "none" /\ memory' = memory ]_vars

(***************************************************************************)
(* Drawing                                                                 *)
(***************************************************************************)
IsDraw(opcode) == opcode >= 0 /\ OpNibble(opcode) = 53248

\* pixel p = row * 64 + col is under a set bit of a sprite of the given number
\* of rows read at I and drawn at (Vx, Vy): bit 7-c of memory[I+r], with
\* r = row - Vy and c = col - Vx
UnderSpriteBit(p, opcode, rows) ==
  LET r == (p \div GfxWidth) - v[OpY(opcode)]
      col == (p % GfxWidth) - v[OpX(opcode)]
  IN /\ 0 <= r /\ r < rows
     /\ 0 <= col /\ col < 8
     /\ Bit(memory[i + r], 7 - col) = 1

Pixels == 0..(GfxWidth * GfxHeight - 1)

\* C17: Dxyn with I + n <= 0x1000 toggles exactly the pixels (Vx+c, Vy+r),
\* 0 <= r < n, 0 <= c < 8, that are on the screen and under a set sprite bit,
\* leaves every other pixel unchanged, and sets VF = 1 iff one of the toggled
\* pixels was on before the draw, else VF = 0
C17_DrawTogglesSpritePixels ==
  [][ ( /\ last'.op = "step" /\ last'.exc = "none" /\ IsDraw(last'.opcode)
        /\ i + OpN(last'.opcode) <= MemorySize )
      => /\ \A p \in Pixels :
              IF UnderSpriteBit(p, last'.opcode, OpN(last'.opcode))
              THEN (gfx'[p] # 0) # (gfx[p] # 0)
              ELSE gfx'[p] = gfx[p]
         /\ v'[15] = IF \E p \in Pixels :
                          UnderSpriteBit(p, last'.opcode, OpN(last'.opcode)) /\ gfx[p] # 0
                     THEN 1 ELSE 0 ]_vars

\* D015 at (62, 30) of the 5 bytes at 0x200 (D0 05 60 3E 61): of the first row,
\* columns 62 and 63 are drawn and the bit for column 65 is dropped, not wrapped;
\* of the third row, below the screen, nothing is drawn at the top
C17_Witness ==
  /\ last.op = "step" /\ last.exc = "none" /\ IsDraw(last.opcode) /\ OpN(last.opcode) = 5
  /\ v[0] = 62 /\ v[1] = 30 /\ i = program_start
  /\ gfx_before[30 * GfxWidth + 62] = 0 /\ gfx[30 * GfxWidth + 62] # 0
  /\ gfx[30 * GfxWidth + 63] # 0
  /\ gfx[30 * GfxWidth + 1] = 0
  /\ gfx[62] = 0
  /\ v[15] = 0

\* the second of two executions in a row of the same Dxyn (x, y not F, so that
\* the first draw leaves Vx and Vy as they were)
SecondDraw ==
  /\ last.op = "step" /\ last.exc = "none" /\ IsDraw(last.opcode)
  /\ last'.op = "step" /\ last'.exc = "none" /\ last'.opcode = last.opcode
  /\ OpX(last.opcode) # 15 /\ OpY(last.opcode) # 15

\* C18: the same Dxyn twice in a row restores the framebuffer to its content
\* before the first draw, and the second draw sets VF = 1 whenever the sprite
\* has a set bit inside the screen
C18_SecondDrawCollides ==
  [][ SecondDraw
      => /\ gfx' = gfx_before
         /\ (\E p \in Pixels : UnderSpriteBit(p, last.opcode, SpriteLen(chip8, OpN(last.opcode))))
            => v'[15] = 1 ]_vars

\* C18 (amended): the same Dxyn twice in a row restores the framebuffer to its
\* content before the first draw, and the second draw sets VF = 1 iff a set
\* sprite bit inside the screen lies on a pixel that was off before the first draw
C18_SecondDrawRestores ==
  [][ SecondDraw
      => /\ gfx' = gfx_before
         /\ v'[15] = IF \E p \in Pixels :
                          /\ UnderSpriteBit(p, last.opcode, SpriteLen(chip8, OpN(last.opcode)))
                          /\ gfx_before[p] = 0
                     THEN 1 ELSE 0 ]_vars

\* the "0" glyph is on the screen, D015 of the same glyph at the same place
\* erased it, and the second D015 has drawn it again: no collision
C18_Witness ==
  /\ last.op = "step" /\ last.exc = "none" /\ IsDraw(last.opcode)
  /\ pc = program_start + 12
  /\ v[0] = 0 /\ v[1] = 0 /\ i = 0 /\ OpN(last.opcode) = 5
  /\ gfx_before[0] = 0 /\ gfx[0] # 0
  /\ v[15] = 0

(***************************************************************************)
(* Arithmetic flags                                                        *)
(***************************************************************************)
\* a step has executed 8xyk without an error
Executes8(sub_op) == last'.op = "step" /\ last'.exc = "none" /\ IsOp8(last'.opcode, sub_op)

\* C19: for every x and y, x = F and y = F included, with Vx and Vy taken before
\* the instruction: 8xy4 leaves VF = 1 iff Vx + Vy > 255, 8xy6 leaves VF = bit 0
\* of Vx, 8xyE leaves VF = bit 7 of Vx; and for x # F the result in Vx is
\* (Vx + Vy) mod 256, Vx >> 1, (Vx << 1) mod 256
C19_CarryAndShiftFlags ==
  [][ LET x == OpX(last'.opcode)
          y == OpY(last'.opcode)
      IN /\ Executes8(4)
            => /\ v'[15] = IF v[x] + v[y] > 255 THEN 1 ELSE 0
               /\ x # 15 => v'[x] = (v[x] + v[y]) % 256
         /\ Executes8(6)
            => /\ v'[15] = v[x] % 2
               /\ x # 15 => v'[x] = v[x] \div 2
         /\ Executes8(14)
            => /\ v'[15] = v[x] \div 128
               /\ x # 15 => v'[x] = (v[x] * 2) % 256 ]_vars

\* C20: for every x in 0..14 and every y, y = F included, with Vx and Vy taken
\* before the instruction: 8xy5 leaves Vx = (Vx - Vy) mod 256 and VF = 1 iff
\* Vx > Vy; 8xy7 leaves Vx = (Vy - Vx) mod 256 and VF = 1 iff Vy > Vx
C20_SubtractAndBorrowFlags ==
  [][ LET x == OpX(last'.opcode)
          y == OpY(last'.opcode)
      IN /\ (Executes8(5) /\ x # 15)
            => /\ v'[x] = (v[x] - v[y]) % 256
               /\ v'[15] = IF v[x] > v[y] THEN 1 ELSE 0
         /\ (Executes8(7) /\ x # 15)
            => /\ v'[x] = (v[y] - v[x]) % 256
               /\ v'[15] = IF v[y] > v[x] THEN 1 ELSE 0 ]_vars

(***************************************************************************)
(* Errors                                                                  *)
(***************************************************************************)
\* the instruction set: 00E0, 00EE, 1nnn, 2nnn, 3xnn, 4xnn, 5xy0, 6xnn, 7xnn,
\* 8xy0..8xy7, 8xyE, 9xy0, Annn, Bnnn, Cxnn, Dxyn, Ex9E, ExA1, Fx07, Fx0A, Fx15,
\* Fx18, Fx1E, Fx29, Fx33, Fx55, Fx65
Supported(opcode) ==
  LET nibble == OpNibble(opcode)
  IN \/ opcode \in {224, 238}
     \/ nibble \in {4096, 8192, 12288, 16384, 24576, 28672, 40960, 45056, 49152, 53248}
     \/ nibble \in {20480, 36864} /\ OpN(opcode) = 0
     \/ nibble = 32768 /\ OpN(opcode) \in (0..7) \cup {14}
     \/ nibble = 57344 /\ OpNN(opcode) \in {158, 161}
     \/ nibble = 61440 /\ OpNN(opcode) \in {7, 10, 21, 24, 30, 41, 51, 85, 101}

\* C21: a step that fetches an opcode outside the instruction set fails with
\* the unsupported-opcode error for that opcode and executes nothing; 5xyN and
\* 9xyN with N # 0 are not executed as skips
C21_UnsupportedOpcodeFails ==
  [][ ( last'.op = "step" /\ last'.opcode >= 0 /\ ~Supported(last'.opcode) )
      => /\ last'.exc = "Chip8Exception"
         /\ pc' \in {pc, pc + 2} ]_vars

\* the rows of Dxyn that fall on the screen: r < n with Vy + r < 32
OnScreenRows(opcode) == Min(OpN(opcode), Max(0, GfxHeight - v[OpY(opcode)]))

\* C22: an index-relative access past address 0xFFF fails with an error: Dxyn
\* whose on-screen rows need memory[I .. I+rows-1] with I+rows-1 > 0xFFF, Fx33
\* with I+2 > 0xFFF, Fx55 and Fx65 with I+x > 0xFFF
C22_AccessPastMemoryFails ==
  [][ ( /\ last'.op = "step" /\ last'.opcode >= 0
        /\ \/ /\ IsDraw(last'.opcode)
              /\ OnScreenRows(last'.opcode) > 0
              /\ i + OnScreenRows(last'.opcode) - 1 > MemorySize - 1
           \/ IsFx(last'.opcode, 51) /\ i + 2 > MemorySize - 1
           \/ /\ IsFx(last'.opcode, 85) \/ IsFx(last'.opcode, 101)
              /\ i + OpX(last'.opcode) > MemorySize - 1 )
      => last'.exc # "none" ]_vars

\* C23: a step that raises an error (unsupported opcode, stack access out of
\* range, memory access out of range in Fx33 / Fx55 / Fx65) leaves registers,
\* I, memory, stack, sp and framebuffer exactly as they were before the call
C23_FailedStepChangesNoData ==
  [][ ( last'.op = "step" /\ last'.exc # "none" )
      => UNCHANGED <<v, i, memory, stack, sp, gfx>> ]_vars

(***************************************************************************)
(* The host loop and the key-wait                                          *)
(***************************************************************************)
\* C24: in the host loop step is never called while waiting_for_key_press is
\* set, and from the Fx0A until the completing key-down pc, registers, I,
\* memory, stack, sp and framebuffer do not change: a key-up (or the passing of
\* time) leaves them and the wait as they are, and the only transition that
\* ends the wait is a key-down
C24_WaitHoldsTheMachine ==
  [][ waiting_for_key_press
      => /\ last'.op # "step"
         /\ \/ UNCHANGED <<pc, v, i, memory, stack, sp, gfx, waiting_for_key_press>>
            \/ last'.op = "keydown" /\ ~waiting_for_key_press'
         /\ last'.op = "keyup"
            => UNCHANGED <<pc, v, i, memory, stack, sp, gfx, waiting_for_key_press,
                           delay_timer, sound_timer>> ]_vars

\* a key was held when Fx0A was executed and has been released since: the
\* machine still waits on the Fx0A
C24_Witness ==
  /\ waiting_for_key_press
  /\ last.op = "keyup"
  /\ keyboard = 0
  /\ CanFetch /\ IsKeyWait(FetchOpcode(chip8))

(***************************************************************************)
(* The framebuffer                                                         *)
(***************************************************************************)
\* the value of a cell that is on: 0 ^ 0xffffffff
PixelOn == -1

\* C25: every framebuffer cell is off (0) or the one on value, at the start and
\* after every change; 00E0 sets all 2048 cells to off, and only 00E0 and
\* Dxyn, no other instruction and no key event, change the framebuffer
C25_FramebufferBinary ==
  /\ \A p \in Pixels : gfx[p] \in {0, PixelOn}
  /\ [][ /\ ( last'.op = "step" /\ last'.exc = "none" /\ last'.opcode = 224 )
            => \A p \in Pixels : gfx'[p] = 0
         /\ gfx' # gfx
            => /\ last'.op = "step" /\ last'.exc = "none"
               /\ last'.opcode = 224 \/ IsDraw(last'.opcode)
               /\ \A p \in Pixels : gfx'[p] \in {0, PixelOn} ]_vars

\* 00E0 has cleared a screen that showed the "0" glyph
C25_Witness ==
  /\ last.op = "step" /\ last.exc = "none" /\ last.opcode = 224
  /\ gfx_before[0] = PixelOn /\ gfx_before[GfxWidth] = PixelOn
  /\ \A p \in Pixels : gfx[p] = 0

\* C26: in the host loop a failing step never blocks the machine: after any
\* step error pc has moved past the failing instruction, so the next iteration
\* does not fetch and fail at the same place again
C26_FailedStepMovesOn ==
  [][ ( last'.op = "step" /\ last'.exc # "none" ) => pc' = pc + 2 ]_vars

=============================================================================
